---------------------------- MODULE Spec2Model ----------------------------
(***************************************************************************)
(* A model of siti (src/siti/__main__.py): the SI/TI driver                *)
(* calculate_si_ti, its CLI wrapper main, the two frame sources read_yuv   *)
(* and read_container, the frame count estimator get_num_frames, the       *)
(* range conversion _convert_range and the metric function ti.             *)
(*                                                                         *)
(* Abstractions:                                                           *)
(*  - A frame is a record [index, height, width, data]: data is the plane  *)
(*    in row-major order; index is a ghost field, the ordinal of the frame *)
(*    in its source (0 for "no frame").                                    *)
(*  - The float results of si() and ti() (Sobel, hypot, std) are not       *)
(*    computed.  An element of si_values / ti_values is the index of the   *)
(*    frame it was computed for; the element 0 of ti_values is the literal *)
(*    0.0 the list is initialised with.                                    *)
(*  - The file is a sequence of bytes, the container a record of what      *)
(*    PyAV reports: whether a video stream exists, the frame count of its  *)
(*    metadata, and the frames its decoder yields.                         *)
(*  - A handle that the code never closes explicitly is closed only by     *)
(*    the garbage collector, whose timing Python does not define: Collect  *)
(*    may or may not have run when the run ends.                           *)
(***************************************************************************)
EXTENDS Integers, Sequences, FiniteSets

VARIABLES
    input_file,          \* "in.yuv" or "in.mp4"
    arg_num_frames,      \* the num_frames argument as passed by the caller
    width, height,       \* the width/height arguments (0: absent)
    full_range,          \* the full_range argument
    file_data,           \* the bytes of the raw file
    container,           \* what av.open(input_file) exposes
    pc,                  \* position of the run
    outcome,             \* how the run ended ("" while running)
    num_frames,          \* calculate_si_ti's local num_frames (the limit)
    si_values, ti_values,
    previous_frame_data,
    current_frame,
    frame_data,          \* the frame the source yielded last
    y_data,              \* the plane the source read last, before conversion
    in_pos,              \* read offset of in_f
    range_n,             \* read_yuv's own num_frames (the range of its loop)
    src_i,               \* frames the source has yielded
    pulls,               \* next() calls the driver made on the source
    handles,             \* state of each file/stream handle
    io,                  \* kinds of file I/O performed so far
    warnings,            \* diagnostics printed to stderr
    ti_frame, ti_prev, ti_result   \* the pure-function check of ti()

inputs == <<input_file, arg_num_frames, width, height, full_range,
            file_data, container>>
driver == <<pc, outcome, num_frames, si_values, ti_values,
            previous_frame_data, current_frame, frame_data, y_data,
            in_pos, range_n, src_i, pulls, handles, io, warnings>>
tivars == <<ti_frame, ti_prev, ti_result>>
vars == <<inputs, driver, tivars>>

---------------------------------------------------------------------------
(* Bounds of the model *)
MaxDim == 2          \* width and height range over 0..MaxDim
MaxFileSize == 13    \* the raw file has 0..MaxFileSize bytes
MaxFrames == 3       \* the container decodes / reports 0..MaxFrames frames
MaxLimit == 3        \* an explicit num_frames ranges over 1..MaxLimit

(* Python's None, for the integer-valued num_frames *)
None == -1

(* The limits of the Limited luma range and the span it is scaled to *)
LimitedMin == 16
LimitedMax == 235
FullMax == 255

Min(a, b) == IF a < b THEN a ELSE b

SeqMin(s) == CHOOSE x \in {s[i] : i \in 1..Len(s)} :
                \A j \in 1..Len(s) : x <= s[j]
SeqMax(s) == CHOOSE x \in {s[i] : i \in 1..Len(s)} :
                \A j \in 1..Len(s) : x >= s[j]

NoFrame == [index |-> 0, height |-> 0, width |-> 0, data |-> <<>>]

Frame(i, h, w, d) == [index |-> i, height |-> h, width |-> w, data |-> d]

---------------------------------------------------------------------------
(* _convert_range *)

\* a range check that forgets the upper limit
ConvertRangeFailsMinOnly(d) ==
    Len(d) > 0 /\ SeqMin(d) < LimitedMin

\* np.min(y_data) < 16 or np.max(y_data) > 235
ConvertRangeFails(d) ==
    Len(d) > 0 /\ (SeqMin(d) < LimitedMin \/ SeqMax(d) > LimitedMax)

\* np.around((y - 16) / ((235 - 16) / 255)): round half to even; the
\* denominator 219 is odd, so no tie occurs
ConvertSample(y) ==
    LET num == (y - LimitedMin) * FullMax
        den == LimitedMax - LimitedMin
        q   == num \div den
        r   == num % den
    IN  IF 2 * r > den THEN q + 1 ELSE q

ConvertRange(d) == [i \in 1..Len(d) |-> ConvertSample(d[i])]

---------------------------------------------------------------------------
(* ti *)

\* numpy's broadcasting rule for frame_data - previous_frame_data
Broadcastable(a, b) == a = b \/ a = 1 \/ b = 1

\* "None": no previous frame; "float": a value; "ValueError": numpy refuses
ti(f, p) ==
    IF p = NoFrame THEN "None"
    ELSE IF Broadcastable(f.height, p.height) /\ Broadcastable(f.width, p.width)
         THEN "float"
         ELSE "ValueError"

---------------------------------------------------------------------------
(* Frame size arithmetic of the raw planar source *)

\* width * height * 3 // 2
FrameSize(w, h) == (w * h * 3) \div 2

\* file_size // (width * height * 3 // 2); the caller has excluded a zero divisor
NumFramesOf(size, w, h) == size \div FrameSize(w, h)

\* (width // 2) * (height // 2) * 2
ChromaSize(w, h) == (w \div 2) * (h \div 2) * 2

---------------------------------------------------------------------------
(* The inputs a run is started with *)

BadSamples == {LimitedMin - 1, LimitedMax + 1}

BaseSample(i) == IF i % 2 = 1 THEN LimitedMin ELSE LimitedMax

\* Sample sequences of length n: all samples on the limits of the Limited
\* range, but for at most one sample just outside it
Planes(n) ==
    {[i \in 1..n |-> BaseSample(i)]} \cup
    {[i \in 1..n |-> IF i = k THEN b ELSE BaseSample(i)] :
        k \in 1..n, b \in BadSamples}

\* The frames a decoder yields: n frames of MaxDim x MaxDim samples
DecodedFrames(n) ==
    LET s == MaxDim * MaxDim
    IN  {[i \in 1..n |->
            Frame(i, MaxDim, MaxDim, SubSeq(p, (i - 1) * s + 1, i * s))] :
         p \in Planes(n * s)}

NoContainer == [video |-> FALSE, frames |-> 0, decoded |-> <<>>]

Containers ==
    {NoContainer} \cup
    UNION {[video : {TRUE}, frames : 0..MaxFrames, decoded : DecodedFrames(n)] :
           n \in 0..MaxFrames}

EndsWithYuv(f) == f = "in.yuv"

HandleNames == {"read_yuv", "read_container", "get_num_frames"}

InitDriver ==
    /\ outcome = ""
    /\ num_frames = arg_num_frames
    /\ si_values = <<>>
    /\ ti_values = <<>>
    /\ previous_frame_data = NoFrame
    /\ current_frame = 0
    /\ frame_data = NoFrame
    /\ y_data = NoFrame
    /\ in_pos = 0
    /\ range_n = 0
    /\ src_i = 0
    /\ pulls = 0
    /\ handles = [h \in HandleNames |-> "unopened"]
    /\ io = {}
    /\ warnings = {}

InitTiIdle ==
    /\ ti_frame = NoFrame
    /\ ti_prev = NoFrame
    /\ ti_result = ""

Init ==
    /\ pc \in {"main", "calculate_si_ti"}
    /\ arg_num_frames \in {None} \cup 0..MaxLimit
    /\ full_range \in BOOLEAN
    /\ \/ /\ input_file = "in.yuv"
          /\ width \in 0..MaxDim
          /\ height \in 0..MaxDim
          /\ file_data \in UNION {Planes(n) : n \in 0..MaxFileSize}
          /\ container = NoContainer
       \/ /\ input_file = "in.mp4"
          /\ width = 0
          /\ height = 0
          /\ file_data = <<>>
          /\ container \in Containers
    /\ InitDriver
    /\ InitTiIdle

---------------------------------------------------------------------------
(* The run *)

NeedN2 == "exit(1): Need at least -n 2!"
NeedDims == "exit(1): Need to specify --width and --height for YUV!"
NoVideoStreams == "RuntimeError: No video streams found!"
RangeError == "RuntimeError: Input YUV appears to be full range, specify full_range=True!"

Fail(e) == pc' = "done" /\ outcome' = e

\* main, from the parsed arguments to the call of calculate_si_ti
Main ==
    /\ pc = "main"
    /\ IF arg_num_frames # None /\ arg_num_frames < 2
       THEN Fail(NeedN2)
       ELSE IF EndsWithYuv(input_file) /\ ~(width # 0 /\ height # 0)
            THEN Fail(NeedDims)
            ELSE pc' = "calculate_si_ti" /\ outcome' = outcome
    /\ UNCHANGED <<inputs, tivars, num_frames, si_values, ti_values,
                   previous_frame_data, current_frame, frame_data, y_data,
                   in_pos, range_n, src_i, pulls, handles, io, warnings>>

\* a TI list that starts empty
InitialTiValuesEmpty == <<>>

\* ti_values = [0.0]
InitialTiValues == <<0>>

\* calculate_si_ti up to the decision whether to ask get_num_frames
CalculateStart ==
    /\ pc = "calculate_si_ti"
    /\ si_values' = <<>>
    /\ ti_values' = InitialTiValues
    /\ previous_frame_data' = NoFrame
    /\ current_frame' = 0
    /\ warnings' = IF EndsWithYuv(input_file)
                   THEN warnings \cup {"raw file accuracy"}
                   ELSE warnings
    /\ pc' = IF num_frames = 0 THEN "get_num_frames" ELSE "iterate"
    /\ UNCHANGED <<inputs, tivars, outcome, num_frames, frame_data, y_data,
                   in_pos, range_n, src_i, pulls, handles, io>>

\* a frame count of 0 taken at face value
ContainerNumFramesRaw(frames) == frames

\* the container branch of get_num_frames: 0 frames reported means unknown
ContainerNumFrames(frames) == IF frames = 0 THEN None ELSE frames

\* get_num_frames, called when the caller gave num_frames == 0
GetNumFrames ==
    /\ pc = "get_num_frames"
    /\ IF EndsWithYuv(input_file)
       THEN /\ io' = io \cup {"getsize"}
            /\ handles' = handles
            /\ warnings' = warnings
            /\ IF FrameSize(width, height) = 0
               THEN Fail("ZeroDivisionError") /\ num_frames' = num_frames
               ELSE /\ num_frames' = NumFramesOf(Len(file_data), width, height)
                    /\ pc' = "iterate"
                    /\ outcome' = outcome
       ELSE /\ io' = io \cup {"open"}
            /\ handles' = [handles EXCEPT !["get_num_frames"] = "open"]
            /\ IF ~container.video
               THEN /\ Fail("IndexError")
                    /\ num_frames' = num_frames
                    /\ warnings' = warnings
               ELSE /\ num_frames' = ContainerNumFrames(container.frames)
                    /\ warnings' = IF container.frames = 0
                                   THEN warnings \cup {"frame count could not be detected"}
                                   ELSE warnings
                    /\ pc' = "iterate"
                    /\ outcome' = outcome
    /\ UNCHANGED <<inputs, tivars, si_values, ti_values, previous_frame_data,
                   current_frame, frame_data, y_data, in_pos, range_n, src_i,
                   pulls>>

\* read_yuv from its first line to the open of the file
ReadYuvOpen ==
    /\ pc = "iterate"
    /\ EndsWithYuv(input_file)
    /\ IF FrameSize(width, height) = 0
       THEN /\ Fail("ZeroDivisionError")
            /\ io' = io \cup {"getsize"}
            /\ UNCHANGED <<range_n, handles, in_pos>>
       ELSE /\ range_n' = NumFramesOf(Len(file_data), width, height)
            /\ io' = io \cup {"getsize", "open"}
            /\ handles' = [handles EXCEPT !["read_yuv"] = "open"]
            /\ in_pos' = 0
            /\ pc' = "next"
            /\ outcome' = outcome
    /\ UNCHANGED <<inputs, tivars, num_frames, si_values, ti_values,
                   previous_frame_data, current_frame, frame_data, y_data,
                   src_i, pulls, warnings>>

\* read_container from its first line to the start of the decode loop
ReadContainerOpen ==
    /\ pc = "iterate"
    /\ ~EndsWithYuv(input_file)
    /\ io' = io \cup {"open"}
    /\ handles' = [handles EXCEPT !["read_container"] = "open"]
    /\ IF ~container.video
       THEN Fail(NoVideoStreams)
       ELSE pc' = "next" /\ outcome' = outcome
    /\ UNCHANGED <<inputs, tivars, num_frames, si_values, ti_values,
                   previous_frame_data, current_frame, frame_data, y_data,
                   in_pos, range_n, src_i, pulls, warnings>>

\* one iteration of read_yuv's loop, up to its yield; or the end of the loop,
\* which closes in_f and ends the driver's loop (t.close(); return)
ReadYuvNext ==
    /\ pc = "next"
    /\ EndsWithYuv(input_file)
    /\ pulls' = pulls + 1
    /\ IF src_i < range_n
       THEN LET size == Len(file_data)
                got  == SubSeq(file_data, in_pos + 1,
                               Min(in_pos + width * height, size))
            IN  /\ io' = io \cup {"read"}
                /\ IF Len(got) # width * height
                   THEN \* a short read cannot be reshaped
                        /\ Fail("ValueError")
                        /\ in_pos' = in_pos + Len(got)
                        /\ handles' = [handles EXCEPT !["read_yuv"] = "closed"]
                        /\ UNCHANGED <<y_data, frame_data, src_i>>
                   ELSE /\ y_data' = Frame(src_i + 1, height, width, got)
                        /\ in_pos' = Min(in_pos + width * height
                                           + ChromaSize(width, height), size)
                        /\ IF ~full_range /\ ConvertRangeFails(got)
                           THEN /\ Fail(RangeError)
                                /\ handles' = [handles EXCEPT !["read_yuv"] = "closed"]
                                /\ UNCHANGED <<frame_data, src_i>>
                           ELSE /\ frame_data' =
                                     Frame(src_i + 1, height, width,
                                           IF full_range THEN got
                                                         ELSE ConvertRange(got))
                                /\ src_i' = src_i + 1
                                /\ pc' = "body"
                                /\ UNCHANGED <<outcome, handles>>
       ELSE /\ handles' = [handles EXCEPT !["read_yuv"] = "closed"]
            /\ pc' = "done"
            /\ outcome' = "returned"
            /\ UNCHANGED <<io, in_pos, y_data, frame_data, src_i>>
    /\ UNCHANGED <<inputs, tivars, num_frames, si_values, ti_values,
                   previous_frame_data, current_frame, range_n, warnings>>

\* one iteration of read_container's decode loop, up to its yield; or the end
\* of the decoder's frames, which ends the driver's loop (t.close(); return)
ReadContainerNext ==
    /\ pc = "next"
    /\ ~EndsWithYuv(input_file)
    /\ pulls' = pulls + 1
    /\ IF src_i < Len(container.decoded)
       THEN LET f == container.decoded[src_i + 1]
            IN  /\ y_data' = f
                /\ IF ~full_range /\ ConvertRangeFails(f.data)
                   THEN /\ Fail(RangeError)
                        /\ UNCHANGED <<frame_data, src_i>>
                   ELSE /\ frame_data' =
                             Frame(f.index, f.height, f.width,
                                   IF full_range THEN f.data
                                                 ELSE ConvertRange(f.data))
                        /\ src_i' = src_i + 1
                        /\ pc' = "body"
                        /\ outcome' = outcome
       ELSE /\ pc' = "done"
            /\ outcome' = "returned"
            /\ UNCHANGED <<y_data, frame_data, src_i>>
    /\ UNCHANGED <<inputs, tivars, num_frames, si_values, ti_values,
                   previous_frame_data, current_frame, in_pos, range_n,
                   handles, io, warnings>>

\* a limit test that is off by one
LimitReachedLate(limit, count) == limit # None /\ count > limit

\* num_frames is not None and current_frame >= num_frames
LimitReached(limit, count) == limit # None /\ count >= limit

\* the body of the driver's loop
LoopBody ==
    /\ pc = "body"
    /\ si_values' = Append(si_values, frame_data.index)
    /\ LET ti_value == ti(frame_data, previous_frame_data)
       IN  IF ti_value = "ValueError"
           THEN /\ Fail("ValueError")
                /\ UNCHANGED <<ti_values, previous_frame_data, current_frame>>
           ELSE /\ ti_values' = IF ti_value = "None"
                                THEN ti_values
                                ELSE Append(ti_values, frame_data.index)
                /\ previous_frame_data' = frame_data
                /\ current_frame' = current_frame + 1
                /\ IF LimitReached(num_frames, current_frame + 1)
                   THEN pc' = "done" /\ outcome' = "returned"
                   ELSE pc' = "next" /\ outcome' = outcome
    /\ UNCHANGED <<inputs, tivars, num_frames, frame_data, y_data, in_pos,
                   range_n, src_i, pulls, handles, io, warnings>>

\* The garbage collector finalises an object nothing refers to any more: the
\* container of get_num_frames once that function is left, a suspended or
\* finished generator and its locals once the driver is left
Collect(h) ==
    /\ handles[h] = "open"
    /\ h = "get_num_frames" \/ pc = "done"
    /\ handles' = [handles EXCEPT ![h] = "closed"]
    /\ UNCHANGED <<inputs, tivars, pc, outcome, num_frames, si_values,
                   ti_values, previous_frame_data, current_frame, frame_data,
                   y_data, in_pos, range_n, src_i, pulls, io, warnings>>

Next ==
    \/ Main
    \/ CalculateStart
    \/ GetNumFrames
    \/ ReadYuvOpen
    \/ ReadContainerOpen
    \/ ReadYuvNext
    \/ ReadContainerNext
    \/ LoopBody
    \/ \E h \in HandleNames : Collect(h)

Spec == Init /\ [][Next]_vars

---------------------------------------------------------------------------
(* ti as a pure function of two frames *)

MaxTiDim == 3        \* heights and widths of the frames given to ti

TiFrames ==
    {Frame(1, h, w, [i \in 1..(h * w) |-> LimitedMin]) :
        h \in 1..MaxTiDim, w \in 1..MaxTiDim}

InitTi ==
    /\ pc = "ti"
    /\ input_file = "in.mp4"
    /\ arg_num_frames = None
    /\ width = 0
    /\ height = 0
    /\ full_range = FALSE
    /\ file_data = <<>>
    /\ container = NoContainer
    /\ InitDriver
    /\ ti_frame \in TiFrames
    /\ ti_prev \in TiFrames \cup {NoFrame}
    /\ ti_result = ""

TiCall ==
    /\ pc = "ti"
    /\ ti_result = ""
    /\ ti_result' = ti(ti_frame, ti_prev)
    /\ UNCHANGED <<inputs, driver, ti_frame, ti_prev>>

NextTi == TiCall

SpecTi == InitTi /\ [][NextTi]_vars

---------------------------------------------------------------------------
(* Properties *)

Returned == pc = "done" /\ outcome = "returned"

\* the frames the source can yield
SourceFrames ==
    IF EndsWithYuv(input_file)
    THEN NumFramesOf(Len(file_data), width, height)
    ELSE Len(container.decoded)

FirstIndices(n) == [i \in 1..n |-> i]

OutOfRange(d) == \E i \in 1..Len(d) : d[i] < LimitedMin \/ d[i] > LimitedMax

\* C1 as stated: a run that returns after n >= 1 frames returns n SI values
\* and n - 1 TI values.
C1_TiOneShorter ==
    (Returned /\ current_frame >= 1) =>
        /\ Len(si_values) = current_frame
        /\ Len(ti_values) = current_frame - 1

\* C1 as amended: a run that returns after n >= 1 frames returns n SI values
\* and n TI values; the first TI value is the literal 0.0 the list starts
\* with, the other n - 1 are those of frames 2..n against their predecessor.
C1_TiWithPlaceholder ==
    (Returned /\ current_frame >= 1) =>
        /\ Len(si_values) = current_frame
        /\ Len(ti_values) = current_frame
        /\ ti_values[1] = 0
        /\ \A k \in 2..current_frame : ti_values[k] = k

\* C1 witness: a run returned after at least two frames, with a computed TI value
C1_Witness == Returned /\ current_frame >= 2 /\ Len(ti_values) >= 2

\* C2: with a limit L >= 2 the driver never makes more than L pulls, a run
\* that returns has processed the first min(L, N) frames of the source in
\* order and returns that count, and the run ends, normally, as soon as L
\* frames have been processed.
C2_LimitStops ==
    arg_num_frames >= 2 =>
        /\ pulls <= arg_num_frames
        /\ Returned =>
              /\ current_frame = Min(arg_num_frames, SourceFrames)
              /\ si_values = FirstIndices(current_frame)
        /\ current_frame >= arg_num_frames => Returned

\* C2 witness: a run stopped by its limit while the source had more frames
C2_Witness ==
    /\ arg_num_frames >= 2
    /\ Returned
    /\ current_frame = arg_num_frames
    /\ SourceFrames > arg_num_frames

\* C3: in Limited mode a plane read from either source with a sample below
\* 16 or above 235 ends the run with the range error and nothing is
\* returned; in Full mode the range error is never raised.
C3_RangeCheck ==
    /\ (~full_range /\ OutOfRange(y_data.data)) =>
          (pc = "done" /\ outcome = RangeError)
    /\ full_range => outcome # RangeError

\* C3 witness: the range error raised for a sample above 235 in a later frame
C3_Witness ==
    /\ outcome = RangeError
    /\ src_i >= 1
    /\ y_data.data[Len(y_data.data)] > LimitedMax

\* C4: when the run has ended, whichever way, no handle is open.
C4_HandlesClosed ==
    pc = "done" => \A h \in HandleNames : handles[h] # "open"

\* C5: for a raw source with width, height >= 1 the count read_yuv iterates
\* over, and the estimate of get_num_frames, are floor(size / (w*h*3/2)).
C5_FrameCount ==
    (EndsWithYuv(input_file) /\ width >= 1 /\ height >= 1) =>
        /\ handles["read_yuv"] # "unopened" =>
              range_n = (2 * Len(file_data)) \div (3 * width * height)
        /\ (arg_num_frames = 0 /\ pc \in {"iterate", "next", "body"}) =>
              num_frames = (2 * Len(file_data)) \div (3 * width * height)

\* C7: a run on a container without a video stream that gets past the
\* argument checks of main ends with "No video streams found!".
C7_NoVideoStream ==
    (pc = "done" /\ ~EndsWithYuv(input_file) /\ ~container.video
        /\ outcome # NeedN2) =>
        outcome = NoVideoStreams

\* C8: a raw input without width or height is rejected as lacking its
\* dimensions, and before any file I/O.
C8_MissingDimensions ==
    (pc = "done" /\ EndsWithYuv(input_file) /\ (width = 0 \/ height = 0)
        /\ outcome # NeedN2) =>
        (outcome = NeedDims /\ io = {})

\* C9: with no limit (num_frames 0, or None, for which get_num_frames is not
\* asked) and a container that reports 0 frames, get_num_frames gives None
\* and a warning and raises nothing, and a run that returns has made one
\* pull per frame of the source plus the one that found it exhausted, and
\* returns the number of frames the source has.
C9_UnknownCount ==
    (/\ arg_num_frames \in {0, None}
     /\ ~EndsWithYuv(input_file)
     /\ container.video
     /\ container.frames = 0
     /\ pc \in {"iterate", "next", "body", "done"}
     /\ outcome # NeedN2) =>
        /\ num_frames = None
        /\ arg_num_frames = 0 => "frame count could not be detected" \in warnings
        /\ outcome \in {"", "returned", RangeError}
        /\ Returned =>
              /\ current_frame = Len(container.decoded)
              /\ si_values = FirstIndices(Len(container.decoded))
              /\ pulls = Len(container.decoded) + 1

\* C9 witness: an unbounded run over a container reporting 0 frames returned
\* after at least two frames
C9_Witness ==
    /\ arg_num_frames = 0
    /\ container.video
    /\ container.frames = 0
    /\ Returned
    /\ current_frame >= 2

\* C10: every iteration of read_yuv starts reading the luma plane at a
\* multiple of the frame size the frame count is computed with.
C10_FrameOffsets ==
    (EndsWithYuv(input_file) /\ width >= 1 /\ height >= 1 /\ pc = "next") =>
        in_pos = src_i * FrameSize(width, height)

\* C6: ti on two frames whose heights or widths differ raises an error and
\* gives no value.
C6_DimensionMismatch ==
    (/\ ti_result # ""
     /\ ti_prev # NoFrame
     /\ (ti_frame.height # ti_prev.height \/ ti_frame.width # ti_prev.width)) =>
        ti_result = "ValueError"

===========================================================================
